---- MODULE Spec2Model ----
(***************************************************************************)
(* A model of the schema-driven data-access package db (src/api.go):       *)
(* the type-name coder, the catalog loader GetTable, the value converter   *)
(* convertValue, the Row/Rows decoders and the positional CRUD builders.   *)
(*                                                                         *)
(* Text that the code inspects character by character (column type        *)
(* strings) is a sequence of one-character strings.  An SQL statement is   *)
(* the sequence of its lexemes, in the order fmt.Sprintf and strings.Join  *)
(* lay them out.  A Go value is a record [k |-> kind, v |-> payload]; a    *)
(* float64 payload n stands for the number n/2.                            *)
(***************************************************************************)
EXTENDS Integers, Sequences, FiniteSets, TLC

VARIABLES
    db,        \* the connection pool: TRUE once Open has stored one
    db_name,   \* the active database name
    catalog,   \* the rows information_schema.COLUMNS holds for the table
    table,     \* the Table the caller holds, Null when none
    setter,    \* the Setter the caller holds, Null when none
    cursor,    \* the row the driver's cursor stands on, Null when none
    args,      \* the positional arguments the caller passes as predicates
    values,    \* the positional arguments the caller passes as values
    dest,      \* the destination(s) the caller passes to a decoder
    src,       \* the source value the caller passes to convertValue
    call,      \* the last call made: its name and arguments
    ret,       \* what that call returned, or handed to the driver
    pc         \* where the calls running concurrently stand, and their locals

vars == <<db, db_name, catalog, table, setter, cursor, args, values, dest, src, call, ret, pc>>

\* what the caller passes: never changed by a call
inputs == <<args, values, dest, src>>

(***************************************************************************)
(* Bounds of the model.                                                    *)
(***************************************************************************)
MaxCols == 3

(***************************************************************************)
(* Generic helpers.                                                        *)
(***************************************************************************)
Null == [k |-> "null", v |-> 0]

Range(s) == {s[i] : i \in DOMAIN s}

SeqsUpTo(S, n) == UNION {[1..m -> S] : m \in 0..n}

\* strings.Join(list, sep) on lexeme sequences: list is a sequence of
\* lexeme sequences, sep a lexeme sequence
RECURSIVE Join(_, _)
Join(list, sep) ==
    IF list = <<>> THEN <<>>
    ELSE IF Len(list) = 1 THEN list[1]
    ELSE list[1] \o sep \o Join(Tail(list), sep)

(***************************************************************************)
(* Type constants (src/api.go:87-106), numbered by iota.                   *)
(***************************************************************************)
TypeInt == 0
TypeBigint == 1
TypeFloat == 2
TypeDouble == 3
TypeDecimal == 4
TypeChar == 5
TypeVarchar == 6
TypeText == 7
TypeMediumText == 8
TypeLongtext == 9
TypeDate == 10
TypeDatetime == 11
TypeYear == 12
TypeTime == 13
TypeTimestamp == 14

TypeCodes == TypeInt..TypeTimestamp

\* outcome of a call that panics: no type code
Panic == TypeInt - 1

(***************************************************************************)
(* Character-level text.                                                   *)
(***************************************************************************)
UpperChars == <<"A","B","C","D","E","F","G","H","I","J","K","L","M",
                "N","O","P","Q","R","S","T","U","V","W","X","Y","Z">>
LowerChars == <<"a","b","c","d","e","f","g","h","i","j","k","l","m",
                "n","o","p","q","r","s","t","u","v","w","x","y","z">>
DigitChars == <<"0","1","2","3","4","5","6","7","8","9">>

\* the character classes \d and \w
Digits == Range(DigitChars)
WordChars == Range(UpperChars) \cup Range(LowerChars) \cup Range(DigitChars) \cup {"_"}

IsDigit(c) == c \in Digits

LowerChar(c) ==
    IF c \in Range(UpperChars)
    THEN LowerChars[CHOOSE i \in DOMAIN UpperChars : UpperChars[i] = c]
    ELSE c

UpperChar(c) ==
    IF c \in Range(LowerChars)
    THEN UpperChars[CHOOSE i \in DOMAIN LowerChars : LowerChars[i] = c]
    ELSE c

\* strings.ToLower / strings.ToUpper
ToLower(s) == [i \in DOMAIN s |-> LowerChar(s[i])]
ToUpper(s) == [i \in DOMAIN s |-> UpperChar(s[i])]

\* regexp FindString for a pattern class+ : the leftmost, longest run of
\* characters of the class, the empty text when there is none
FindRun(s, class) ==
    IF \A i \in DOMAIN s : s[i] \notin class THEN <<>>
    ELSE LET from == CHOOSE i \in DOMAIN s :
                        /\ s[i] \in class
                        /\ \A j \in 1..(i-1) : s[j] \notin class
             to == CHOOSE i \in from..Len(s) :
                        /\ \A j \in from..i : s[j] \in class
                        /\ (i = Len(s) \/ s[i+1] \notin class)
         IN SubSeq(s, from, to)

DigitValue(c) == (CHOOSE i \in DOMAIN DigitChars : DigitChars[i] = c) - 1

\* strconv.Atoi with its error dropped (length, _ = strconv.Atoi(lengthstr)):
\* 0 for a text that is not a decimal number
RECURSIVE DecimalValue(_)
DecimalValue(s) ==
    IF s = <<>> THEN 0
    ELSE 10 * DecimalValue(SubSeq(s, 1, Len(s) - 1)) + DigitValue(s[Len(s)])

Atoi(s) == IF s = <<>> \/ \E i \in DOMAIN s : ~IsDigit(s[i]) THEN 0 ELSE DecimalValue(s)

(***************************************************************************)
(* TypeCoder: parseDbType, formatDbType, parseFieldType.                   *)
(***************************************************************************)
N_int == <<"i","n","t">>
N_bigint == <<"b","i","g","i","n","t">>
N_float == <<"f","l","o","a","t">>
N_double == <<"d","o","u","b","l","e">>
N_decimal == <<"d","e","c","i","m","a","l">>
N_char == <<"c","h","a","r">>
N_varchar == <<"v","a","r","c","h","a","r">>
N_text == <<"t","e","x","t">>
N_mediumtext == <<"m","e","d","i","u","m","t","e","x","t">>
N_longtext == <<"l","o","n","g","t","e","x","t">>
N_date == <<"d","a","t","e">>
N_datetime == <<"d","a","t","e","t","i","m","e">>
N_year == <<"y","e","a","r">>
N_time == <<"t","i","m","e">>
N_timestamp == <<"t","i","m","e","s","t","a","m","p">>

parseDbType(typename) ==
    LET n == ToLower(typename) IN
    CASE n = N_int -> TypeInt
      [] n = N_bigint -> TypeBigint
      [] n = N_float -> TypeFloat
      [] n = N_double -> TypeDouble
      [] n = N_decimal -> TypeDecimal
      [] n = N_char -> TypeChar
      [] n = N_varchar -> TypeVarchar
      [] n = N_text -> TypeText
      [] n = N_mediumtext -> TypeMediumText
      [] n = N_longtext -> TypeLongtext
      [] n = N_date -> TypeDate
      [] n = N_datetime -> TypeDatetime
      [] n = N_year -> TypeYear
      [] n = N_timestamp -> TypeTimestamp
      [] n = N_time -> TypeTime
      [] OTHER -> Panic

\* outcome of formatDbType when it panics: no name
NoName == <<>>

\* formatDbType with the names of the two date types exchanged
formatDbTypeSwapped(typevalue) ==
    CASE typevalue = TypeInt -> N_int
      [] typevalue = TypeBigint -> N_bigint
      [] typevalue = TypeFloat -> N_float
      [] typevalue = TypeDouble -> N_double
      [] typevalue = TypeDecimal -> N_decimal
      [] typevalue = TypeChar -> N_char
      [] typevalue = TypeVarchar -> N_varchar
      [] typevalue = TypeText -> N_text
      [] typevalue = TypeMediumText -> N_mediumtext
      [] typevalue = TypeLongtext -> N_longtext
      [] typevalue = TypeDatetime -> N_date
      [] typevalue = TypeDate -> N_datetime
      [] typevalue = TypeYear -> N_year
      [] typevalue = TypeTime -> N_time
      [] typevalue = TypeTimestamp -> N_timestamp
      [] OTHER -> NoName

formatDbType(typevalue) ==
    CASE typevalue = TypeInt -> N_int
      [] typevalue = TypeBigint -> N_bigint
      [] typevalue = TypeFloat -> N_float
      [] typevalue = TypeDouble -> N_double
      [] typevalue = TypeDecimal -> N_decimal
      [] typevalue = TypeChar -> N_char
      [] typevalue = TypeVarchar -> N_varchar
      [] typevalue = TypeText -> N_text
      [] typevalue = TypeMediumText -> N_mediumtext
      [] typevalue = TypeLongtext -> N_longtext
      [] typevalue = TypeDatetime -> N_datetime
      [] typevalue = TypeDate -> N_date
      [] typevalue = TypeYear -> N_year
      [] typevalue = TypeTime -> N_time
      [] typevalue = TypeTimestamp -> N_timestamp
      [] OTHER -> NoName

\* parseFieldType: (name, value, length), or Panic when parseDbType panics
parseFieldType(typestr) ==
    LET name == FindRun(typestr, WordChars)
        lengthstr == FindRun(typestr, Digits)
        length == Atoi(lengthstr)
        value == parseDbType(name)
    IN IF value = Panic THEN Null
       ELSE [k |-> "FieldType", Name |-> name, Value |-> value, Length |-> length]

(***************************************************************************)
(* SchemaCatalog: the connection globals, Open, Use and GetTable.          *)
(* Of a catalog row the model keeps COLUMN_NAME, COLUMN_TYPE and           *)
(* COLUMN_KEY; the default, nullability, extra and comment columns are     *)
(* copied into the Field by the code and read by nothing modelled here.    *)
(***************************************************************************)
DbNames == {"d1", "d2"}
TableNames == {"t"}
ColNames == <<"id", "name", "score", "email", "age">>
ColumnKeys == {"", "PRI", "UNI"}

T_int11 == N_int \o <<"(","1","1",")">>
T_varchar255 == ToUpper(N_varchar) \o <<"(","2","5","5",")">>
T_double == N_double
T_datetime == N_datetime
T_json == <<"j","s","o","n">>

\* the column types of the catalogs GetTable is run on: a known type and
\* one the type coder does not know
ColumnTypes == {T_int11, T_json}

\* the rows information_schema.COLUMNS can answer with, ordered by
\* ORDINAL_POSITION: the column at position i is named ColNames[i]
CatalogRows(n) ==
    {[i \in 1..n |-> [Name |-> ColNames[i], Type |-> ty[i], Key |-> ky[i]]] :
        ty \in [1..n -> ColumnTypes], ky \in [1..n -> ColumnKeys]}

Catalogs == UNION {CatalogRows(n) : n \in 0..MaxCols}

\* the backquote of the code's SQL text is written as an apostrophe here
BQ == "'"

\* fmt.Sprintf of table.TbName, a dot and the backquoted row.Name
FullNameOf(tbname, name) == tbname \o "." \o BQ \o name \o BQ

EmptyTable(dbname, tablename) ==
    [k |-> "Table", DbName |-> dbname, TbName |-> tablename,
     Fields |-> <<>>, PrimaryKey |-> "", UniqueIndex |-> <<>>,
     Fullname |-> "", sqlInsert |-> <<>>, sqlSelect |-> <<>>, sqlDelete |-> <<>>,
     sqlUpdate |-> <<>>, sqlSelectCount |-> <<>>, sqlArgMark |-> <<>>, Len |-> 0,
     keys |-> <<>>]

\* one pass of the loop over rows.Next() of GetTable: the table after the
\* row has been scanned and appended, Null when FieldType.Scan panics
scanRow(t, r) ==
    LET ft == parseFieldType(r.Type)
        row == [Name |-> r.Name, FullName |-> FullNameOf(t.TbName, r.Name),
                Type |-> ft, Key |-> r.Key]
    IN IF ft.k = "null" THEN Null
       ELSE [t EXCEPT !.keys = Append(@, <<row.FullName>>),
                      !.Fields = Append(@, row),
                      !.sqlArgMark = Append(@, <<"?">>),
                      !.PrimaryKey = IF row.Key = "PRI" THEN row.Name ELSE @,
                      !.UniqueIndex = IF row.Key = "UNI" THEN Append(@, row.Name) ELSE @]

RECURSIVE scanRows(_, _)
scanRows(t, rows) ==
    IF rows = <<>> \/ t.k = "null" THEN t
    ELSE scanRows(scanRow(t, Head(rows)), Tail(rows))

\* the statement skeletons GetTable precomputes once the rows are read
withSql(t) ==
    LET fullname == t.DbName \o "." \o t.TbName IN
    [t EXCEPT !.Fullname = fullname,
              !.sqlInsert = <<"INSERT INTO", fullname>>,
              !.sqlDelete = <<"DELETE FROM", fullname>>,
              !.sqlUpdate = <<"UPDATE", fullname>>,
              !.sqlSelect = <<"SELECT">> \o Join(t.keys, <<",">>) \o <<"FROM", fullname>>,
              !.sqlSelectCount = <<"SELECT COUNT(", t.PrimaryKey, ")", "FROM", fullname>>]

\* GetTable without the check of table.Len: a table is returned whatever
\* the number of columns read
GetTableNoLenCheck(dbname, tablename, rows, fail) ==
    LET scanned == scanRows(EmptyTable(dbname, tablename), rows)
    IN  IF fail = "query" THEN [table |-> Null, err |-> "query", panic |-> FALSE]
        ELSE IF scanned.k = "null" THEN [table |-> Null, err |-> "", panic |-> TRUE]
        ELSE IF fail = "rows" THEN [table |-> Null, err |-> "rows", panic |-> FALSE]
        ELSE [table |-> withSql([scanned EXCEPT !.Len = Len(scanned.Fields)]),
              err |-> "", panic |-> FALSE]

\* GetTable(tablename) with db_name = dbname, the catalog answering rows;
\* fail names the step at which the driver reports an error, if any
GetTable(dbname, tablename, rows, fail) ==
    LET scanned == scanRows(EmptyTable(dbname, tablename), rows)
        len == Len(scanned.Fields)
    IN  IF fail = "query" THEN [table |-> Null, err |-> "query", panic |-> FALSE]
        ELSE IF scanned.k = "null" THEN [table |-> Null, err |-> "", panic |-> TRUE]
        ELSE IF fail = "rows" THEN [table |-> Null, err |-> "rows", panic |-> FALSE]
        ELSE IF len = 0 THEN [table |-> Null, err |-> "columns no found", panic |-> FALSE]
        ELSE [table |-> withSql([scanned EXCEPT !.Len = len]), err |-> "", panic |-> FALSE]

Fails == {"none", "query", "rows"}

InitCall == [op |-> "init"]

\* no call is under way
Idle == [GetTable |-> [at |-> "idle", tablename |-> "", fail |-> "none"],
         Open |-> [at |-> "idle", databasename |-> ""]]

\* Open: sql.Open and Ping succeed or not; only success stores the globals
Open(databasename, ok) ==
    /\ call' = [op |-> "Open", databasename |-> databasename]
    /\ ret' = [err |-> IF ok THEN "" ELSE "open", panic |-> FALSE]
    /\ db' = IF ok THEN TRUE ELSE db
    /\ db_name' = IF ok THEN databasename ELSE db_name
    /\ UNCHANGED <<catalog, table, setter, cursor, inputs, pc>>

\* Use assigning db_name only when the statement has succeeded
UseKeepsNameOnError(databasename, ok) ==
    /\ call' = [op |-> "Use", databasename |-> databasename]
    /\ ret' = IF db THEN [err |-> IF ok THEN "" ELSE "exec", panic |-> FALSE]
               ELSE [err |-> "", panic |-> TRUE]
    /\ db_name' = IF db /\ ok THEN databasename ELSE db_name
    /\ UNCHANGED <<db, catalog, table, setter, cursor, inputs, pc>>

\* Use: the statement is executed, db_name is assigned, the error returned;
\* before any Open the handle is nil and Exec panics ahead of the assignment
Use(databasename, ok) ==
    /\ call' = [op |-> "Use", databasename |-> databasename]
    /\ ret' = IF db THEN [err |-> IF ok THEN "" ELSE "exec", panic |-> FALSE]
               ELSE [err |-> "", panic |-> TRUE]
    /\ db_name' = IF db THEN databasename ELSE db_name
    /\ UNCHANGED <<db, catalog, table, setter, cursor, inputs, pc>>

\* GetTable called by the application; before any Open the handle is nil
\* and Query panics
GetTableCall(tablename, fail) ==
    /\ call' = [op |-> "GetTable", tablename |-> tablename, fail |-> fail]
    /\ ret' = IF db THEN GetTable(db_name, tablename, catalog, fail)
               ELSE [table |-> Null, err |-> "", panic |-> TRUE]
    /\ table' = ret'.table
    /\ UNCHANGED <<db, db_name, catalog, setter, cursor, inputs, pc>>

InitCatalog ==
    /\ db = FALSE
    /\ db_name = ""
    /\ catalog \in Catalogs
    /\ table = Null
    /\ setter = Null
    /\ cursor = Null
    /\ args = <<>>
    /\ values = <<>>
    /\ dest = Null
    /\ src = Null
    /\ call = InitCall
    /\ pc = Idle
    /\ ret = Null

NextCatalog ==
    \/ \E d \in DbNames, ok \in BOOLEAN : Open(d, ok)
    \/ \E d \in DbNames, ok \in BOOLEAN : Use(d, ok)
    \/ \E tn \in TableNames, fail \in Fails : GetTableCall(tn, fail)

SpecCatalog == InitCatalog /\ [][NextCatalog]_vars

\* C4: every Table GetTable returns has len(Fields) = Len = number of ?
\* placeholder tokens >= 1, and when the catalog answers the query of an
\* open handle with zero columns GetTable returns an error and no Table.
C4_TableShape ==
    call.op = "GetTable" =>
        /\ ret.table.k = "Table" =>
            /\ Len(ret.table.Fields) = ret.table.Len
            /\ Len(ret.table.sqlArgMark) = ret.table.Len
            /\ \A i \in DOMAIN ret.table.sqlArgMark : ret.table.sqlArgMark[i] = <<"?">>
            /\ ret.table.Len >= 1
            /\ ret.table.Len = Len(catalog)
        /\ (db /\ catalog = <<>>) => (ret.table = Null /\ ret.err # "" /\ ~ret.panic)

C4_Witness ==
    /\ call.op = "GetTable"
    /\ ret.table.k = "Table"
    /\ ret.table.Len = MaxCols

\* C10: in every Table GetTable returns, at most one field has Key "PRI",
\* and PrimaryKey names that field.
C10_SinglePrimary ==
    (call.op = "GetTable" /\ ret.table.k = "Table") =>
        LET pri == {i \in DOMAIN ret.table.Fields : ret.table.Fields[i].Key = "PRI"} IN
        /\ Cardinality(pri) <= 1
        /\ \A i \in pri : ret.table.PrimaryKey = ret.table.Fields[i].Name

(***************************************************************************)
(* GetTable running concurrently with Open and Use.  db and db_name are    *)
(* package variables read and written without synchronisation, so a call   *)
(* is a sequence of steps between which the other callers' steps fall:     *)
(* GetTable reads db_name for the query parameter, and again for           *)
(* table.DbName once the query has answered; Open stores db, then db_name; *)
(* Use writes db_name once, after Exec.  A read racing a write yields the  *)
(* old or the new name (the names of DbNames have one length, so a torn    *)
(* read of the string header yields one of the two as well).  Here catalog *)
(* holds the rows of the table in each schema.                             *)
(***************************************************************************)
LoadCatalogs ==
    {<<>>} \cup {[i \in 1..n |-> [Name |-> ColNames[i], Type |-> T_int11,
                                  Key |-> IF i = 1 THEN "PRI" ELSE ""]] : n \in 1..MaxCols}

\* the rows information_schema.COLUMNS answers for TABLE_SCHEMA = schema
RowsIn(schema) == IF schema \in DOMAIN catalog THEN catalog[schema] ELSE <<>>

\* the cursor of GetTable: the schema it was asked for and the rows it gives
RowsCursor(k, schema, rows) == [k |-> k, schema |-> schema, v |-> rows]

\* Open up to the store of db: a failure of sql.Open or Ping returns first
OpenStoreDb(databasename, ok) ==
    /\ pc.Open.at = "idle"
    /\ call' = [op |-> IF ok THEN "Open.db" ELSE "Open", databasename |-> databasename]
    /\ ret' = [err |-> IF ok THEN "" ELSE "open", panic |-> FALSE]
    /\ db' = IF ok THEN TRUE ELSE db
    /\ pc' = IF ok THEN [pc EXCEPT !.Open = [at |-> "db_name", databasename |-> databasename]]
             ELSE pc
    /\ UNCHANGED <<db_name, catalog, table, setter, cursor, inputs>>

\* Open from the store of db_name to its return
OpenStoreName ==
    /\ pc.Open.at = "db_name"
    /\ call' = [op |-> "Open", databasename |-> pc.Open.databasename]
    /\ ret' = [err |-> "", panic |-> FALSE]
    /\ db_name' = pc.Open.databasename
    /\ pc' = [pc EXCEPT !.Open = Idle.Open]
    /\ UNCHANGED <<db, catalog, table, setter, cursor, inputs>>

\* GetTable up to the answer of Query(query, db_name, tablename): a nil
\* handle panics, a failing query returns its error
GetTableQuery(tablename, fail) ==
    /\ pc.GetTable.at = "idle"
    /\ call' = [op |-> "GetTable.Query", db_name |-> db_name, tablename |-> tablename,
                fail |-> fail]
    /\ IF ~db THEN
            /\ ret' = [table |-> Null, err |-> "", panic |-> TRUE]
            /\ table' = Null
            /\ UNCHANGED <<cursor, pc>>
       ELSE IF fail = "query" THEN
            /\ ret' = [table |-> Null, err |-> "query", panic |-> FALSE]
            /\ table' = Null
            /\ UNCHANGED <<cursor, pc>>
       ELSE /\ cursor' = RowsCursor("rows", db_name, RowsIn(db_name))
            /\ pc' = [pc EXCEPT !.GetTable = [at |-> "table", tablename |-> tablename,
                                              fail |-> fail]]
            /\ UNCHANGED <<ret, table>>
    /\ UNCHANGED <<db, db_name, catalog, setter, inputs>>

\* GetTable from var table Table to its return: table.DbName = db_name as
\* it reads now, the fields from the rows of the cursor
GetTableReturn ==
    /\ pc.GetTable.at = "table"
    /\ call' = [op |-> "GetTable", tablename |-> pc.GetTable.tablename,
                fail |-> pc.GetTable.fail]
    /\ ret' = GetTable(db_name, pc.GetTable.tablename, cursor.v, pc.GetTable.fail)
    /\ table' = ret'.table
    /\ cursor' = RowsCursor("closed", cursor.schema, cursor.v)
    /\ pc' = [pc EXCEPT !.GetTable = Idle.GetTable]
    /\ UNCHANGED <<db, db_name, catalog, setter, inputs>>

InitLoad ==
    /\ db = FALSE
    /\ db_name = ""
    /\ catalog \in [DbNames -> LoadCatalogs]
    /\ table = Null
    /\ setter = Null
    /\ cursor = Null
    /\ args = <<>>
    /\ values = <<>>
    /\ dest = Null
    /\ src = Null
    /\ call = InitCall
    /\ ret = Null
    /\ pc = Idle

NextLoad ==
    \/ \E d \in DbNames, ok \in BOOLEAN : OpenStoreDb(d, ok)
    \/ OpenStoreName
    \/ \E d \in DbNames, ok \in BOOLEAN : Use(d, ok)
    \/ \E tn \in TableNames, fail \in Fails : GetTableQuery(tn, fail)
    \/ GetTableReturn

SpecLoad == InitLoad /\ [][NextLoad]_vars

\* C12: under any interleaving of GetTable with Use and Open, the DbName of
\* the Table returned, and the schema its INSERT, SELECT, UPDATE, DELETE and
\* COUNT fragments name, is the schema whose catalog rows its cursor gave.
C12_SchemaMatches ==
    (call.op = "GetTable" /\ ret.table.k = "Table") =>
        LET fullname == cursor.schema \o "." \o ret.table.TbName IN
        /\ ret.table.DbName = cursor.schema
        /\ ret.table.Fullname = fullname
        /\ ret.table.sqlInsert[Len(ret.table.sqlInsert)] = fullname
        /\ ret.table.sqlSelect[Len(ret.table.sqlSelect)] = fullname
        /\ ret.table.sqlUpdate[Len(ret.table.sqlUpdate)] = fullname
        /\ ret.table.sqlDelete[Len(ret.table.sqlDelete)] = fullname
        /\ ret.table.sqlSelectCount[Len(ret.table.sqlSelectCount)] = fullname

\* C13: a Use that returns has recorded the requested name as db_name
\* whether or not its statement failed, and the GetTable that follows a
\* failed Use(d) passes d as TABLE_SCHEMA and reads the rows of schema d;
\* an Open that fails leaves db and db_name as they were.
C13_UseRecordsName ==
    [][/\ (call'.op = "Use" /\ ~ret'.panic) => db_name' = call'.databasename
       /\ (call.op = "Use" /\ ~ret.panic /\ ret.err # "" /\ call'.op = "GetTable.Query") =>
            /\ call'.db_name = call.databasename
            /\ pc'.GetTable.at = "table" =>
                    (cursor'.schema = call.databasename /\ cursor'.v = RowsIn(call.databasename))
       /\ (call'.op = "Open" /\ ret'.err # "") => (db' = db /\ db_name' = db_name)]_vars

\* a failed Use of d2 on a handle whose last GetTable was answered from d1,
\* then GetTable reading the rows of d2
C13_Witness ==
    /\ call.op = "GetTable.Query"
    /\ pc.GetTable.at = "table"
    /\ pc.Open.at = "idle"
    /\ ret.err = "exec"
    /\ table.k = "Table"
    /\ table.DbName = "d1"
    /\ cursor.schema = "d2"
    /\ db_name = "d2"

(***************************************************************************)
(* QueryBuilder: Add, Del, Get, GetMany, Find, FindMany, CountBy, Update,  *)
(* UpdateMany and Setter.Values.  Each builds its statement and hands it,  *)
(* with the bound arguments, to Exec, Query or QueryRow.                   *)
(***************************************************************************)
Nil == [k |-> "nil", v |-> 0]
Str(s) == [k |-> "string", v |-> s]
I64(n) == [k |-> "int64", v |-> n]

\* the loop shared by every builder: the indexes i, ascending, at which
\* list[i] is not nil (a nil element takes the continue branch)
RECURSIVE keep(_, _)
keep(list, i) ==
    IF i > Len(list) THEN <<>>
    ELSE IF list[i].k = "nil" THEN keep(list, i + 1)
    ELSE <<i>> \o keep(list, i + 1)

\* t.Fields[i] is indexed only for a non-nil element: the call panics with
\* an index out of range when one lies beyond the last field
outOfRange(t, list) == \E i \in DOMAIN list : i > t.Len /\ list[i].k # "nil"

\* listwhere: FullName+"=?" for each kept index
listwhere(t, list) ==
    LET idx == keep(list, 1) IN [j \in DOMAIN idx |-> <<t.Fields[idx[j]].FullName, "=", "?">>]

\* listparam: the kept elements
listparam(list) ==
    LET idx == keep(list, 1) IN [j \in DOMAIN idx |-> list[idx[j]]]

Panicked == [panic |-> TRUE, via |-> "", query |-> <<>>, args |-> <<>>]

Handed(via, query, bound) == [panic |-> FALSE, via |-> via, query |-> query, args |-> bound]

\* Add with every placeholder of the table in the statement
AddAllMarks(t, vals) ==
    LET idx == keep(vals, 1)
        listcolname == [j \in DOMAIN idx |-> <<t.Fields[idx[j]].FullName>>]
        listParam == listparam(vals)
    IN IF outOfRange(t, vals) THEN Panicked
       ELSE Handed("Exec",
                   t.sqlInsert \o <<"(">> \o Join(listcolname, <<",">>) \o <<")", "VALUES", "(">>
                       \o Join(t.sqlArgMark, <<",">>) \o <<")">>,
                   listParam)

Add(t, vals) ==
    LET idx == keep(vals, 1)
        listcolname == [j \in DOMAIN idx |-> <<t.Fields[idx[j]].FullName>>]
        listParam == listparam(vals)
    IN IF outOfRange(t, vals) THEN Panicked
       ELSE Handed("Exec",
                   t.sqlInsert \o <<"(">> \o Join(listcolname, <<",">>) \o <<")", "VALUES", "(">>
                       \o Join(SubSeq(t.sqlArgMark, 1, Len(listParam)), <<",">>) \o <<")">>,
                   listParam)

\* Del refusing a list with no non-nil argument: nothing is handed to Exec
DelRejectsEmpty(t, list) ==
    IF outOfRange(t, list) THEN Panicked
    ELSE IF keep(list, 1) = <<>> THEN Handed("", <<>>, <<>>)
    ELSE Handed("Exec",
                t.sqlDelete \o <<"WHERE">> \o Join(listwhere(t, list), <<"AND">>) \o <<"LIMIT", "1">>,
                listparam(list))

Del(t, list) ==
    IF outOfRange(t, list) THEN Panicked
    ELSE Handed("Exec",
                t.sqlDelete \o <<"WHERE">> \o Join(listwhere(t, list), <<"AND">>) \o <<"LIMIT", "1">>,
                listparam(list))

Get(t, list) ==
    IF outOfRange(t, list) THEN Panicked
    ELSE Handed("QueryRow",
                t.sqlSelect \o <<"WHERE">> \o Join(listwhere(t, list), <<"AND">>) \o <<"limit", "1">>,
                listparam(list))

GetMany(t, list) ==
    IF outOfRange(t, list) THEN Panicked
    ELSE Handed("Query",
                t.sqlSelect \o <<"WHERE">> \o Join(listwhere(t, list), <<"AND">>),
                listparam(list))

\* Find joining its terms as Get does
FindJoinedAnd(t, list) ==
    IF outOfRange(t, list) THEN Panicked
    ELSE Handed("QueryRow",
                t.sqlSelect \o <<"WHERE">> \o Join(listwhere(t, list), <<"AND">>) \o <<"limit", "1">>,
                listparam(list))

Find(t, list) ==
    IF outOfRange(t, list) THEN Panicked
    ELSE Handed("QueryRow",
                t.sqlSelect \o <<"WHERE">> \o Join(listwhere(t, list), <<"OR">>) \o <<"limit", "1">>,
                listparam(list))

FindMany(t, list) ==
    IF outOfRange(t, list) THEN Panicked
    ELSE Handed("Query",
                t.sqlSelect \o <<"WHERE">> \o Join(listwhere(t, list), <<"OR">>),
                listparam(list))

CountBy(t, list) ==
    IF outOfRange(t, list) THEN Panicked
    ELSE Handed("QueryRow",
                t.sqlSelectCount \o <<"WHERE">> \o Join(listwhere(t, list), <<"AND">>),
                listparam(list))

\* the Setter of Update / UpdateMany, Null when building it panics
Update(t, list) ==
    IF outOfRange(t, list) THEN Null
    ELSE [k |-> "Setter",
          query |-> <<"WHERE">> \o Join(listwhere(t, list), <<"AND">>) \o <<"limit", "1">>,
          args |-> listparam(list)]

UpdateMany(t, list) ==
    IF outOfRange(t, list) THEN Null
    ELSE [k |-> "Setter",
          query |-> <<"WHERE">> \o Join(listwhere(t, list), <<"AND">>),
          args |-> listparam(list)]

\* Setter.Values binding the predicate arguments before the new values
SetterValuesArgsFirst(t, s, vals) ==
    LET listkey == listwhere(t, vals)
        listvalue == listparam(vals)
    IN IF outOfRange(t, vals) THEN Panicked
       ELSE Handed("Exec",
                   t.sqlUpdate \o <<"SET">> \o Join(listkey, <<",">>) \o s.query,
                   s.args \o listvalue)

\* Setter.Values: s.t is the table t the setter was obtained from
SetterValues(t, s, vals) ==
    LET listkey == listwhere(t, vals)
        listvalue == listparam(vals)
    IN IF outOfRange(t, vals) THEN Panicked
       ELSE Handed("Exec",
                   t.sqlUpdate \o <<"SET">> \o Join(listkey, <<",">>) \o s.query,
                   listvalue \o s.args)

(***************************************************************************)
(* The builders as calls on the table the caller holds, with the argument  *)
(* lists the caller passes.                                                *)
(***************************************************************************)
ArgValues == {Nil, Str("x"), I64(5)}

\* the catalogs of the tables the builders are run on: one to MaxCols
\* int(11) columns, the first the primary key
BuilderCatalogs ==
    {[i \in 1..n |-> [Name |-> ColNames[i], Type |-> T_int11,
                      Key |-> IF i = 1 THEN "PRI" ELSE ""]] : n \in 1..MaxCols}

\* the argument lists passed to a table of n fields: every list of at most
\* n elements, and those one element longer while that fits the bound
ArgLists(n) == SeqsUpTo(ArgValues, IF n < MaxCols THEN n + 1 ELSE MaxCols)

InitBuilder ==
    /\ db = TRUE
    /\ db_name = "d1"
    /\ catalog \in BuilderCatalogs
    /\ table = GetTable(db_name, "t", catalog, "none").table
    /\ setter = Null
    /\ cursor = Null
    /\ dest = Null
    /\ src = Null
    /\ call = InitCall
    /\ pc = Idle
    /\ ret = Null

Built(op, result) ==
    /\ call' = [op |-> op]
    /\ ret' = result
    /\ UNCHANGED <<db, db_name, catalog, table, setter, cursor, inputs, pc>>

AddCall == Built("Add", Add(table, values))
DelCall == Built("Del", Del(table, args))
GetCall == Built("Get", Get(table, args))
GetManyCall == Built("GetMany", GetMany(table, args))
FindCall == Built("Find", Find(table, args))
FindManyCall == Built("FindMany", FindMany(table, args))
CountByCall == Built("CountBy", CountBy(table, args))

UpdateCall ==
    /\ call' = [op |-> "Update"]
    /\ setter' = Update(table, args)
    /\ ret' = setter'
    /\ UNCHANGED <<db, db_name, catalog, table, cursor, inputs, pc>>

UpdateManyCall ==
    /\ call' = [op |-> "UpdateMany"]
    /\ setter' = UpdateMany(table, args)
    /\ ret' = setter'
    /\ UNCHANGED <<db, db_name, catalog, table, cursor, inputs, pc>>

ValuesCall ==
    /\ setter.k = "Setter"
    /\ call' = [op |-> "Values"]
    /\ ret' = SetterValues(table, setter, values)
    /\ UNCHANGED <<db, db_name, catalog, table, setter, cursor, inputs, pc>>

\* the single-list builders
InitSelect ==
    /\ InitBuilder
    /\ \E list \in ArgLists(Len(catalog)) : args = list /\ values = list

NextSelect ==
    \/ AddCall
    \/ DelCall
    \/ GetCall
    \/ GetManyCall
    \/ FindCall
    \/ FindManyCall
    \/ CountByCall

SpecSelect == InitSelect /\ [][NextSelect]_vars

\* Update / UpdateMany followed by Values
InitUpdate ==
    /\ InitBuilder
    /\ args \in ArgLists(Len(catalog))
    /\ values \in ArgLists(Len(catalog))

NextUpdate ==
    \/ UpdateCall
    \/ UpdateManyCall
    \/ ValuesCall

SpecUpdate == InitUpdate /\ [][NextUpdate]_vars

\* every predicate-taking operation on the same table and lists
NextWhere ==
    \/ DelCall
    \/ GetCall
    \/ GetManyCall
    \/ FindCall
    \/ FindManyCall
    \/ CountByCall
    \/ UpdateCall
    \/ UpdateManyCall
    \/ ValuesCall

SpecWhere == InitUpdate /\ [][NextWhere]_vars

(***************************************************************************)
(* Reading a statement back: what the claims about the builders speak of.  *)
(***************************************************************************)
\* the indexes of the non-nil elements of a list
Kept(list) == {i \in DOMAIN list : list[i].k # "nil"}

\* the j-th smallest member of a set of numbers
Nth(S, j) == CHOOSE x \in S : Cardinality({y \in S : y < x}) = j - 1

\* the non-nil elements of a list, in ascending index
KeptValues(list) == [j \in 1..Cardinality(Kept(list)) |-> list[Nth(Kept(list), j)]]

\* the qualified names of the fields at the non-nil indexes, ascending
KeptColumns(t, list) ==
    [j \in 1..Cardinality(Kept(list)) |-> t.Fields[Nth(Kept(list), j)].FullName]

\* name=? for each non-nil index, ascending, with joiner between the terms
Terms(t, list, joiner) ==
    LET n == Cardinality(Kept(list)) IN
    [p \in 1..(IF n = 0 THEN 0 ELSE 4 * n - 1) |->
        CASE (p - 1) % 4 = 0 -> KeptColumns(t, list)[((p - 1) \div 4) + 1]
          [] (p - 1) % 4 = 1 -> "="
          [] (p - 1) % 4 = 2 -> "?"
          [] OTHER -> joiner]

Count(q, tok) == Cardinality({i \in DOMAIN q : q[i] = tok})

First(q, tok) == CHOOSE i \in DOMAIN q : q[i] = tok /\ \A j \in 1..(i - 1) : q[j] # tok

\* the lexemes strictly between the first from and the first to
Between(q, from, to) == SubSeq(q, First(q, from) + 1, First(q, to) - 1)

\* the lexemes after the first from
After(q, from) == SubSeq(q, First(q, from) + 1, Len(q))

NotComma(x) == x # ","

\* the predicate of a statement: what follows WHERE, less a trailing limit
WhereOf(q) ==
    LET w == After(q, "WHERE") IN
    IF Len(w) >= 2 /\ w[Len(w) - 1] \in {"limit", "LIMIT"} THEN SubSeq(w, 1, Len(w) - 2) ELSE w

\* C1: for an Add argument list no longer than the table, the INSERT handed
\* to Exec names exactly the columns of the non-nil values, in ascending
\* index, has as many ? as named columns, and binds the non-nil values in
\* that order.
C1_AddStatement ==
    (call.op = "Add" /\ Len(values) <= table.Len) =>
        /\ ~ret.panic
        /\ ret.via = "Exec"
        /\ SubSeq(ret.query, 1, 2) = <<"INSERT INTO", table.Fullname>>
        /\ SelectSeq(Between(ret.query, "(", ")"), NotComma) = KeptColumns(table, values)
        /\ Count(ret.query, "?") = Cardinality(Kept(values))
        /\ ret.args = KeptValues(values)

\* Add(nil, "x", 5), or its first MaxCols arguments on a narrower table
C1_Witness ==
    /\ call.op = "Add"
    /\ table.Len = MaxCols
    /\ Len(values) = table.Len
    /\ values[1] = Nil
    /\ \A i \in 2..Len(values) : values[i].k # "nil"
    /\ Count(ret.query, "?") = table.Len - 1

\* C2: for an argument list no longer than the table, the WHERE clause of
\* Get/GetMany and of Find/FindMany holds one name=? term per non-nil
\* argument, in ascending index, the bound arguments are the non-nil ones in
\* that order, and the terms are joined by AND for Get/GetMany and by OR for
\* Find/FindMany (the same clause when at most one argument is non-nil).
C2_WhereClause ==
    (call.op \in {"Get", "GetMany", "Find", "FindMany"} /\ Len(args) <= table.Len) =>
        /\ ~ret.panic
        /\ ret.args = KeptValues(args)
        /\ call.op \in {"Get", "GetMany"} => WhereOf(ret.query) = Terms(table, args, "AND")
        /\ call.op \in {"Find", "FindMany"} => WhereOf(ret.query) = Terms(table, args, "OR")
        /\ Cardinality(Kept(args)) <= 1 => WhereOf(ret.query) = Terms(table, args, "AND")

\* Find("x", 5, ...) : two predicates joined by OR
C2_Witness ==
    /\ call.op = "Find"
    /\ Len(args) <= table.Len
    /\ Cardinality(Kept(args)) >= 2
    /\ Count(ret.query, "OR") = Cardinality(Kept(args)) - 1

\* the position of the j-th ? of a statement
MarkAt(q, j) ==
    CHOOSE p \in DOMAIN q : q[p] = "?" /\ Cardinality({r \in 1..p : q[r] = "?"}) = j

\* the index of the field a qualified name belongs to
FieldIndex(t, fullname) == CHOOSE i \in DOMAIN t.Fields : t.Fields[i].FullName = fullname

\* C3: for a setter obtained from Update(args...) or UpdateMany(args...) and
\* a later Values(values...), the SET terms of the UPDATE handed to Exec are
\* the fields with non-nil values, ascending, its WHERE terms the fields with
\* non-nil args, ascending, the bound list is the non-nil values followed by
\* the non-nil args, and the j-th ? is bound to the j-th argument.
C3_UpdateStatement ==
    (call.op = "Values" /\ Len(values) <= table.Len /\ Len(args) <= table.Len) =>
        /\ ~ret.panic
        /\ ret.via = "Exec"
        /\ SubSeq(ret.query, 1, 2) = <<"UPDATE", table.Fullname>>
        /\ Between(ret.query, "SET", "WHERE") = Terms(table, values, ",")
        /\ WhereOf(ret.query) = Terms(table, args, "AND")
        /\ ret.args = KeptValues(values) \o KeptValues(args)
        /\ Count(ret.query, "?") = Len(ret.args)
        /\ \A j \in 1..Len(ret.args) :
              LET p == MarkAt(ret.query, j)
                  i == FieldIndex(table, ret.query[p - 2])
              IN ret.args[j] = IF p < First(ret.query, "WHERE") THEN values[i] ELSE args[i]

C3_Witness ==
    /\ call.op = "Values"
    /\ Len(values) <= table.Len
    /\ Len(args) <= table.Len
    /\ Cardinality(Kept(values)) >= 2
    /\ Cardinality(Kept(args)) >= 1
    /\ values[Nth(Kept(values), 1)] # args[Nth(Kept(args), 1)]
    /\ Len(ret.args) = Cardinality(Kept(values)) + Cardinality(Kept(args))

AllNil(list) == \A i \in DOMAIN list : list[i].k = "nil"

\* the lexemes a statement ends with from its WHERE keyword on
FromWhere(q) == SubSeq(q, First(q, "WHERE"), Len(q))

\* C11: when every argument is nil, or none is given, Get, GetMany, Find,
\* FindMany, Del and CountBy hand Exec, Query or QueryRow a statement whose
\* WHERE keyword is followed by no predicate (only by the limit, if any) and
\* which binds no argument; Update and UpdateMany return a setter whose
\* clause is such a WHERE with no argument, and the statement its Values
\* hands to Exec has that clause and binds the SET values only.  None of
\* them panics or withholds the statement, whatever the length of the list.
C11_EmptyWhere ==
    AllNil(args) =>
        /\ call.op \in {"Get", "GetMany", "Find", "FindMany", "Del", "CountBy"} =>
            /\ ~ret.panic
            /\ ret.via \in {"Exec", "Query", "QueryRow"}
            /\ Count(ret.query, "WHERE") = 1
            /\ FromWhere(ret.query) \in {<<"WHERE">>, <<"WHERE", "limit", "1">>,
                                         <<"WHERE", "LIMIT", "1">>}
            /\ ret.args = <<>>
        /\ call.op \in {"Update", "UpdateMany"} =>
            /\ ret.k = "Setter"
            /\ ret.query \in {<<"WHERE">>, <<"WHERE", "limit", "1">>}
            /\ ret.args = <<>>
        /\ (call.op = "Values" /\ Len(values) <= table.Len) =>
            /\ ~ret.panic
            /\ ret.via = "Exec"
            /\ Count(ret.query, "WHERE") = 1
            /\ FromWhere(ret.query) = setter.query
            /\ setter.query \in {<<"WHERE">>, <<"WHERE", "limit", "1">>}
            /\ ret.args = KeptValues(values)

\* Del(nil, ..., nil), one nil more than the table has fields when that
\* fits: DELETE FROM d1.t WHERE LIMIT 1 with nothing bound
C11_Witness ==
    /\ call.op = "Del"
    /\ args # <<>>
    /\ Len(args) = MaxCols
    /\ AllNil(args)
    /\ ret.via = "Exec"
    /\ ret.query = <<"DELETE FROM", table.Fullname, "WHERE", "LIMIT", "1">>
    /\ ret.args = <<>>

(***************************************************************************)
(* TypeCoder as calls: formatDbType, parseDbType (also of the name that    *)
(* formatDbType has just returned) and parseFieldType.                     *)
(***************************************************************************)
TypeNames ==
    {N_int, N_bigint, N_float, N_double, N_decimal, N_char, N_varchar, N_text,
     N_mediumtext, N_longtext, N_date, N_datetime, N_year, N_time, N_timestamp}

\* the names handed to parseDbType: the known ones in either case, and one
\* unknown name
TypeNameInputs == TypeNames \cup {ToUpper(n) : n \in TypeNames} \cup {T_json}

TypeSuffixes ==
    {<<>>, <<"(","1","1",")">>, <<"(","2","5","5",")">>, <<"(","1","0",",","2",")">>,
     <<"(","2","0",")"," ","u","n","s","i","g","n","e","d">>}

TypeStrings == {n \o x : n \in TypeNameInputs, x \in TypeSuffixes}

InitType ==
    /\ db = FALSE
    /\ db_name = ""
    /\ catalog = <<>>
    /\ table = Null
    /\ setter = Null
    /\ cursor = Null
    /\ args = <<>>
    /\ values = <<>>
    /\ dest = Null
    /\ src = Null
    /\ call = InitCall
    /\ pc = Idle
    /\ ret = Null

formatDbTypeCall(typevalue) ==
    /\ call' = [op |-> "formatDbType", typevalue |-> typevalue]
    /\ ret' = [panic |-> formatDbType(typevalue) = NoName, name |-> formatDbType(typevalue)]
    /\ UNCHANGED <<db, db_name, catalog, table, setter, cursor, inputs, pc>>

\* formatted is the code the name was formatted from when the name is the
\* one formatDbType has just returned, Panic otherwise
parseDbTypeCall(typename) ==
    /\ call' = [op |-> "parseDbType", typename |-> typename,
                formatted |-> IF call.op = "formatDbType" /\ ~ret.panic /\ ret.name = typename
                              THEN call.typevalue ELSE Panic]
    /\ ret' = [panic |-> parseDbType(typename) = Panic, value |-> parseDbType(typename)]
    /\ UNCHANGED <<db, db_name, catalog, table, setter, cursor, inputs, pc>>

parseFieldTypeCall(typestr) ==
    /\ call' = [op |-> "parseFieldType", typestr |-> typestr]
    /\ ret' = parseFieldType(typestr)
    /\ UNCHANGED <<db, db_name, catalog, table, setter, cursor, inputs, pc>>

NextType ==
    \/ \E c \in TypeCodes \cup {TypeTimestamp + 1} : formatDbTypeCall(c)
    \/ \E n \in TypeNameInputs : parseDbTypeCall(n)
    \/ \E x \in TypeStrings : parseFieldTypeCall(x)

SpecType == InitType /\ [][NextType]_vars

\* C8: for each of the 15 type codes, parseDbType of the name formatDbType
\* gives for the code is the code.
C8_RoundTrip ==
    (call.op = "parseDbType" /\ call.formatted \in TypeCodes) =>
        /\ ~ret.panic
        /\ ret.value = call.formatted

C8_Witness ==
    /\ call.op = "parseDbType"
    /\ call.formatted = TypeDatetime
    /\ call.typename = N_datetime
    /\ ret.value = TypeDatetime

(***************************************************************************)
(* ValueConverter: parseValue and convertValue.                            *)
(*                                                                         *)
(* Go values: Nil, I64, F64 (payload in halves), Bool, Str, Bytes, Time,   *)
(* a pointer to one of these (possibly a nil pointer) and the nullable     *)
(* scan cells, which are driver.Valuers.  A destination is the untyped nil *)
(* or a pointer, possibly nil, to a cell of its kind; *NullTime and        *)
(* *NullBytes are the package's own sql.Scanner destinations.              *)
(***************************************************************************)
F64(h) == [k |-> "float64", v |-> h]
Bool(b) == [k |-> "bool", v |-> b]
Bytes(s) == [k |-> "[]byte", v |-> s]
Time(t) == [k |-> "time.Time", v |-> t]

Ptr(val) == [k |-> "*" \o val.k, v |-> val]
NilPtr(kind) == [k |-> "*" \o kind, v |-> Nil]

PlainKinds == {"int64", "bool", "float64", "string", "time.Time", "[]byte"}
PtrKinds == {"*" \o kind : kind \in PlainKinds}

\* a nullable scan cell: sql.NullInt64, sql.NullFloat64, sql.NullString,
\* NullTime, NullBytes
Cell(kind, valid, payload) == [k |-> kind, v |-> payload, valid |-> valid]

ValuerKinds == {"NullInt64", "NullFloat64", "NullString", "NullTime", "NullBytes"}

\* the kind of value each cell holds
CellHolds(kind) ==
    CASE kind = "NullInt64" -> "int64"
      [] kind = "NullFloat64" -> "float64"
      [] kind = "NullString" -> "string"
      [] kind = "NullTime" -> "time.Time"
      [] kind = "NullBytes" -> "[]byte"

\* Value() of a cell: nil when not Valid, else the value held
ValuerValue(cell) == IF cell.valid THEN [k |-> CellHolds(cell.k), v |-> cell.v] ELSE Nil

Dest(kind, isnil) == [k |-> kind, isnil |-> isnil]
NilDest == Dest("nil", TRUE)
ScannerKinds == {"*NullTime", "*NullBytes"}

\* the texts and times of the model
Dates == {"2024-01-02"}
Clocks == {"00:00:00", "03:04:05"}
Times == [date : Dates, clock : Clocks]
Int64s == (0 - 1)..2
Float64s == 0..3
Texts ==
    {"", "x", "0", "1", "2", "-1", "+1", "01", "0.5", "1.5", "1.0", "true", "false", "T", "F",
     "2024-01-02 03:04:05", "2024-01-02", "not-a-date"}

\* fmt.Sprint of an int64, a float64 (in halves) and a bool
SprintInt(n) == ToString(n)
SprintFloat(h) == IF h % 2 = 0 THEN ToString(h \div 2) ELSE ToString(h \div 2) \o ".5"
SprintBool(b) == IF b THEN "true" ELSE "false"

\* the decimal texts strconv.ParseInt reads as n
IntTexts(n) ==
    {ToString(n)} \cup (IF n >= 0 THEN {"+" \o ToString(n), "0" \o ToString(n)} ELSE {})

ParseInt(s) ==
    IF \E n \in Int64s : s \in IntTexts(n)
    THEN [ok |-> TRUE, v |-> CHOOSE n \in Int64s : s \in IntTexts(n)]
    ELSE [ok |-> FALSE, v |-> 0]

\* the texts strconv.ParseFloat reads as h halves
FloatTexts(h) ==
    {SprintFloat(h)} \cup
    (IF h % 2 = 0 THEN IntTexts(h \div 2) \cup {ToString(h \div 2) \o ".0"} ELSE {})

ParseFloat(s) ==
    IF \E h \in ((0 - 2)..4) : s \in FloatTexts(h)
    THEN [ok |-> TRUE, v |-> CHOOSE h \in ((0 - 2)..4) : s \in FloatTexts(h)]
    ELSE [ok |-> FALSE, v |-> 0]

ParseBool(s) ==
    IF s \in {"1", "t", "T", "TRUE", "true", "True"} THEN [ok |-> TRUE, v |-> TRUE]
    ELSE IF s \in {"0", "f", "F", "FALSE", "false", "False"} THEN [ok |-> TRUE, v |-> FALSE]
    ELSE [ok |-> FALSE, v |-> FALSE]

\* Time.Format with the layout 2006-01-02 15:04:05
FormatTime(t) == t.date \o " " \o t.clock

\* time.Parse with the full layout, then with the layout 2006-01-02
ParseTime(s) ==
    IF \E t \in Times : FormatTime(t) = s
    THEN [ok |-> TRUE, v |-> CHOOSE t \in Times : FormatTime(t) = s]
    ELSE IF s \in Dates THEN [ok |-> TRUE, v |-> [date |-> s, clock |-> "00:00:00"]]
    ELSE [ok |-> FALSE, v |-> [date |-> "", clock |-> ""]]

\* outcomes of convertValue: the value written to the destination cell (Nil
\* when nothing is written) with a nil error, an error, or a panic
Done(cell) == [out |-> "ok", err |-> "", cell |-> cell]
Failed(e) == [out |-> "err", err |-> e, cell |-> Nil]
Panics == [out |-> "panic", err |-> "", cell |-> Nil]

ErrNilPtr == Failed("db: destination pointer is nil")
TypeError == Failed("db: convertValue: type error")

\* case int64 with every non-zero integer read as true
convertInt64Lax(d, s) ==
    CASE d.k = "*int64" -> IF d.isnil THEN ErrNilPtr ELSE Done(I64(s))
      [] d.k = "*string" -> IF d.isnil THEN ErrNilPtr ELSE Done(Str(SprintInt(s)))
      [] d.k = "*bool" -> IF d.isnil THEN ErrNilPtr ELSE Done(Bool(s # 0))
      [] d.k = "*float64" -> IF d.isnil THEN ErrNilPtr ELSE Done(F64(2 * s))
      [] OTHER -> TypeError

\* case int64
convertInt64(d, s) ==
    CASE d.k = "*int64" -> IF d.isnil THEN ErrNilPtr ELSE Done(I64(s))
      [] d.k = "*string" -> IF d.isnil THEN ErrNilPtr ELSE Done(Str(SprintInt(s)))
      [] d.k = "*bool" ->
            IF d.isnil THEN ErrNilPtr
            ELSE IF s = 0 THEN Done(Bool(FALSE))
            ELSE IF s = 1 THEN Done(Bool(TRUE))
            ELSE Failed("db: the int64 can't convert value to bool.")
      [] d.k = "*float64" -> IF d.isnil THEN ErrNilPtr ELSE Done(F64(2 * s))
      [] OTHER -> TypeError

\* case float64: s in halves, so 1.0 is 2
convertFloat64(d, s) ==
    CASE d.k = "*float64" -> IF d.isnil THEN ErrNilPtr ELSE Done(F64(s))
      [] d.k = "*string" -> IF d.isnil THEN ErrNilPtr ELSE Done(Str(SprintFloat(s)))
      [] d.k = "*bool" ->
            IF d.isnil THEN ErrNilPtr
            ELSE IF s = 0 THEN Done(Bool(FALSE))
            ELSE IF s = 2 THEN Done(Bool(TRUE))
            ELSE Failed("db: the float64 can't convert value to bool.")
      [] OTHER -> TypeError

\* case bool
convertBool(d, s) ==
    CASE d.k = "*bool" -> IF d.isnil THEN ErrNilPtr ELSE Done(Bool(s))
      [] d.k = "*string" -> IF d.isnil THEN ErrNilPtr ELSE Done(Str(SprintBool(s)))
      [] d.k = "*float64" -> IF d.isnil THEN ErrNilPtr ELSE Done(F64(IF s THEN 2 ELSE 0))
      [] d.k = "*int64" -> IF d.isnil THEN ErrNilPtr ELSE Done(I64(IF s THEN 1 ELSE 0))
      [] OTHER -> TypeError

\* case string
convertString(d, s) ==
    CASE d.k = "*string" -> IF d.isnil THEN ErrNilPtr ELSE Done(Str(s))
      [] d.k = "*int64" ->
            IF d.isnil THEN ErrNilPtr
            ELSE IF ParseInt(s).ok THEN Done(I64(ParseInt(s).v)) ELSE Failed("strconv.ParseInt")
      [] d.k = "*float64" ->
            IF d.isnil THEN ErrNilPtr
            ELSE IF ParseFloat(s).ok THEN Done(F64(ParseFloat(s).v)) ELSE Failed("strconv.ParseFloat")
      [] d.k = "*bool" ->
            IF d.isnil THEN ErrNilPtr
            ELSE IF ParseBool(s).ok THEN Done(Bool(ParseBool(s).v)) ELSE Failed("strconv.ParseBool")
      [] d.k = "*time.Time" ->
            IF d.isnil THEN ErrNilPtr
            ELSE IF ParseTime(s).ok THEN Done(Time(ParseTime(s).v)) ELSE Failed("time.Parse")
      [] OTHER -> TypeError

\* case time.Time
convertTime(d, s) ==
    CASE d.k = "*string" -> IF d.isnil THEN ErrNilPtr ELSE Done(Str(FormatTime(s)))
      [] d.k = "*time.Time" -> IF d.isnil THEN ErrNilPtr ELSE Done(Time(s))
      [] OTHER -> TypeError

\* NullTime.Scan and NullBytes.Scan: the type assertion of the value sets
\* Valid, the fields of the receiver are assigned and nil is returned; a nil
\* receiver is dereferenced by the assignment
ScannerScan(d, s) ==
    IF d.isnil THEN Panics
    ELSE IF d.k = "*NullTime"
         THEN Done(IF s.k = "time.Time" THEN Cell("NullTime", TRUE, s.v)
                   ELSE Cell("NullTime", FALSE, [date |-> "", clock |-> ""]))
         ELSE Done(IF s.k = "[]byte" THEN Cell("NullBytes", TRUE, s.v)
                   ELSE Cell("NullBytes", FALSE, ""))

RECURSIVE convertValue(_, _)
convertValue(d, source) ==
    LET s == IF source.k \in ValuerKinds THEN ValuerValue(source) ELSE source IN
    IF d.k \in ScannerKinds THEN ScannerScan(d, s)
    ELSE CASE s.k \in PtrKinds -> IF s.v.k = "nil" THEN Panics ELSE convertValue(d, s.v)
           [] s.k = "int64" -> convertInt64(d, s.v)
           [] s.k = "float64" -> convertFloat64(d, s.v)
           [] s.k = "bool" -> convertBool(d, s.v)
           [] s.k = "string" -> convertString(d, s.v)
           [] s.k = "[]byte" ->
                 IF d.k = "*[]byte" THEN (IF d.isnil THEN ErrNilPtr ELSE Done(Bytes(s.v)))
                 ELSE convertValue(d, Str(s.v))
           [] s.k = "time.Time" -> convertTime(d, s.v)
           [] OTHER -> TypeError

\* parseValue: the value of a Valuer, nil for nil, the pointee of a pointer
parseValue(source) ==
    LET s == IF source.k \in ValuerKinds THEN ValuerValue(source) ELSE source IN
    IF s.k = "nil" THEN Nil
    ELSE IF s.k \in PtrKinds THEN s.v
    ELSE s

(***************************************************************************)
(* convertValue as a call on a destination and a source.                   *)
(***************************************************************************)
PlainValues ==
    {I64(n) : n \in Int64s} \cup {F64(h) : h \in Float64s} \cup {Bool(b) : b \in BOOLEAN}
    \cup {Str(x) : x \in Texts} \cup {Bytes(x) : x \in Texts} \cup {Time(t) : t \in Times}

ScanCells ==
    {Cell("NullInt64", TRUE, n) : n \in Int64s} \cup {Cell("NullInt64", FALSE, 0)}
    \cup {Cell("NullFloat64", TRUE, h) : h \in Float64s} \cup {Cell("NullFloat64", FALSE, 0)}
    \cup {Cell("NullString", TRUE, x) : x \in Texts} \cup {Cell("NullString", FALSE, "")}
    \cup {Cell("NullTime", TRUE, t) : t \in Times}
    \cup {Cell("NullTime", FALSE, [date |-> "", clock |-> ""])}
    \cup {Cell("NullBytes", TRUE, x) : x \in Texts} \cup {Cell("NullBytes", FALSE, "")}

Sources ==
    {Nil} \cup PlainValues \cup {Ptr(val) : val \in PlainValues}
    \cup {NilPtr(kind) : kind \in PlainKinds} \cup ScanCells

Dests == {NilDest} \cup {Dest(kind, b) : kind \in PtrKinds \cup ScannerKinds, b \in BOOLEAN}

InitConv ==
    /\ db = FALSE
    /\ db_name = ""
    /\ catalog = <<>>
    /\ table = Null
    /\ setter = Null
    /\ cursor = Null
    /\ args = <<>>
    /\ values = <<>>
    /\ dest \in Dests
    /\ src \in Sources
    /\ call = InitCall
    /\ pc = Idle
    /\ ret = Null

convertValueCall ==
    /\ call' = [op |-> "convertValue"]
    /\ ret' = convertValue(dest, src)
    /\ UNCHANGED <<db, db_name, catalog, table, setter, cursor, inputs, pc>>

parseValueCall ==
    /\ call' = [op |-> "parseValue"]
    /\ ret' = parseValue(src)
    /\ UNCHANGED <<db, db_name, catalog, table, setter, cursor, inputs, pc>>

NextConv ==
    \/ convertValueCall
    \/ parseValueCall

SpecConv == InitConv /\ [][NextConv]_vars

\* C6: convertValue of an int64 into a bool destination writes false for 0
\* and true for 1 and returns a conversion error, writing nothing, for any
\* other integer; likewise for a float64 with 0.0 and 1.0.
C6_StrictBool ==
    (call.op = "convertValue" /\ dest.k = "*bool" /\ ~dest.isnil /\ src.k \in {"int64", "float64"}) =>
        LET one == IF src.k = "int64" THEN 1 ELSE 2 IN
        /\ src.v = 0 => (ret.out = "ok" /\ ret.cell.k = "bool" /\ ret.cell.v = FALSE)
        /\ src.v = one => (ret.out = "ok" /\ ret.cell.k = "bool" /\ ret.cell.v = TRUE)
        /\ src.v \notin {0, one} => (ret.out = "err" /\ ret.cell.k = "nil")

\* int64(2) into a bool destination is refused
C6_Witness ==
    /\ call.op = "convertValue"
    /\ dest = Dest("*bool", FALSE)
    /\ src.k = "int64"
    /\ src.v = 2
    /\ ret.out = "err"

\* the value convertValue switches on: the Value() of a Valuer, the pointee
\* of a non-nil pointer
Resolved(source) ==
    LET s == IF source.k \in ValuerKinds THEN ValuerValue(source) ELSE source IN
    IF s.k \in PtrKinds /\ s.v.k # "nil" THEN s.v ELSE s

\* the conversion matrix: the destination kinds listed for a source kind
Listed(kind) ==
    CASE kind = "int64" -> {"*int64", "*string", "*bool", "*float64"}
      [] kind = "float64" -> {"*float64", "*string", "*bool"}
      [] kind = "bool" -> {"*bool", "*string", "*float64", "*int64"}
      [] kind = "string" -> {"*string", "*int64", "*float64", "*bool", "*time.Time"}
      [] kind = "[]byte" -> {"*[]byte", "*string", "*int64", "*float64", "*bool", "*time.Time"}
      [] kind = "time.Time" -> {"*string", "*time.Time"}
      [] OTHER -> {}

\* C7: for a pair of source kind and destination kind the matrix does not
\* list (a nil source included), and for every call whose destination is nil
\* (the untyped nil or a nil pointer), convertValue returns an error: it
\* neither succeeds, nor writes, nor panics.
C7_ErrorNotPanic ==
    (/\ call.op = "convertValue"
     /\ \/ dest.isnil
        \/ (dest.k \notin ScannerKinds /\ dest.k \notin Listed(Resolved(src).k))) =>
        (ret.out = "err" /\ ret.cell.k = "nil")

(***************************************************************************)
(* ResultMapper: Row and Rows with Scan, Struct, Slice and Map.            *)
(* The cursor is the row the driver stands on, [k |-> "row", v |-> r] with  *)
(* r[i] the driver value of column i, Nil for NULL, or NoRow when there is *)
(* no row to scan.                                                         *)
(***************************************************************************)
NoRow == [k |-> "norow", v |-> <<>>]
OnRow(r) == [k |-> "row", v |-> r]

\* makeNullableScans: the kind of scan cell for a type code
scanKind(code) ==
    CASE code \in {TypeInt, TypeBigint} -> "NullInt64"
      [] code \in {TypeDate, TypeDatetime, TypeYear, TypeTime, TypeTimestamp} -> "NullTime"
      [] code \in {TypeChar, TypeVarchar, TypeText, TypeMediumText, TypeLongtext} -> "NullString"
      [] code \in {TypeFloat, TypeDouble, TypeDecimal} -> "NullFloat64"
      [] OTHER -> "NullBytes"

\* the zero payload of a cell that is not Valid
ZeroOf(kind) ==
    CASE kind \in {"NullInt64", "NullFloat64"} -> 0
      [] kind = "NullTime" -> [date |-> "", clock |-> ""]
      [] OTHER -> ""

\* the driver's Scan of one column into its cell: NULL leaves it not Valid
scanInto(kind, value) ==
    IF value.k = "nil" THEN Cell(kind, FALSE, ZeroOf(kind)) ELSE Cell(kind, TRUE, value.v)

\* makeNullableScans followed by the cursor's Scan(scans...)
scanned(t, row) == [i \in 1..t.Len |-> scanInto(scanKind(t.Fields[i].Type.Value), row[i])]

\* outcome of a decoder: cells[i] is the value written to destination i,
\* Nil when nothing was written to it
Decoded(out, err, cells) == [out |-> out, err |-> err, cells |-> cells]

\* the loop of Scan from destination i on; cells holds what was written
RECURSIVE scanLoop(_, _, _, _)
scanLoop(scans, dests, i, cells) ==
    IF i > Len(dests) THEN Decoded("ok", "", cells)
    ELSE IF dests[i].k = "nil" THEN scanLoop(scans, dests, i + 1, cells)
    ELSE IF i > Len(scans) THEN Decoded("panic", "", cells)
    ELSE LET c == convertValue(dests[i], scans[i]) IN
         IF c.out = "ok" THEN scanLoop(scans, dests, i + 1, [cells EXCEPT ![i] = c.cell])
         ELSE Decoded(c.out, c.err, cells)

\* the loop of Scan with the cells counted by the destinations not skipped
RECURSIVE scanLoopPacked(_, _, _, _, _)
scanLoopPacked(scans, dests, i, used, cells) ==
    IF i > Len(dests) THEN Decoded("ok", "", cells)
    ELSE IF dests[i].k = "nil" THEN scanLoopPacked(scans, dests, i + 1, used, cells)
    ELSE IF used + 1 > Len(scans) THEN Decoded("panic", "", cells)
    ELSE LET c == convertValue(dests[i], scans[used + 1]) IN
         IF c.out = "ok"
         THEN scanLoopPacked(scans, dests, i + 1, used + 1, [cells EXCEPT ![i] = c.cell])
         ELSE Decoded(c.out, c.err, cells)

Untouched(dests) == [i \in DOMAIN dests |-> Nil]

RowScanPacked(t, row, dests) ==
    IF row.k = "norow" THEN Decoded("err", "sql: no rows in result set", Untouched(dests))
    ELSE scanLoopPacked(scanned(t, row.v), dests, 1, 0, Untouched(dests))

\* Row.Scan
RowScan(t, row, dests) ==
    IF row.k = "norow" THEN Decoded("err", "sql: no rows in result set", Untouched(dests))
    ELSE scanLoop(scanned(t, row.v), dests, 1, Untouched(dests))

\* Rows.Scan: rs.scans are the cells made by makeNullableScans when the
\* Rows was built, filled anew by every Scan
RowsScan(t, row, dests) ==
    IF row.k = "norow" THEN Decoded("err", "sql: Rows are closed", Untouched(dests))
    ELSE scanLoop(scanned(t, row.v), dests, 1, Untouched(dests))

\* a struct destination: ptr says whether a pointer was passed, members are
\* the kinds of the addresses of its fields; any other destination has no
\* members
Struct(ptr, members) == [k |-> "struct", ptr |-> ptr, members |-> members]

\* the loop of Struct over the scan cells from i on
RECURSIVE structLoop(_, _, _, _)
structLoop(scans, members, i, cells) ==
    IF i > Len(scans) THEN Decoded("ok", "", cells)
    ELSE LET c == convertValue(Dest(members[i], FALSE), scans[i]) IN
         IF c.out = "ok" THEN structLoop(scans, members, i + 1, [cells EXCEPT ![i] = c.cell])
         ELSE Decoded(c.out, c.err, cells)

shapeError(t, d) ==
    IF d.k # "struct" THEN "db: the object is not a pointer"
    ELSE IF ~d.ptr THEN "db: the object is not a pointer"
    ELSE IF Len(d.members) # t.Len THEN "db: the object field numbers not equals table column numbers"
    ELSE ""

\* Row.Struct / Rows.Struct with a NULL column leaving its member unwritten
RECURSIVE structLoopSkipNull(_, _, _, _)
structLoopSkipNull(scans, members, i, cells) ==
    IF i > Len(scans) THEN Decoded("ok", "", cells)
    ELSE IF ~scans[i].valid THEN structLoopSkipNull(scans, members, i + 1, cells)
    ELSE LET c == convertValue(Dest(members[i], FALSE), scans[i]) IN
         IF c.out = "ok" THEN structLoopSkipNull(scans, members, i + 1, [cells EXCEPT ![i] = c.cell])
         ELSE Decoded(c.out, c.err, cells)

RowStructSkipNull(t, row, d) ==
    IF shapeError(t, d) # "" THEN Decoded("err", shapeError(t, d), <<>>)
    ELSE IF row.k = "norow" THEN Decoded("err", "sql: no rows in result set", Untouched(d.members))
    ELSE structLoopSkipNull(scanned(t, row.v), d.members, 1, Untouched(d.members))

\* Row.Struct
RowStruct(t, row, d) ==
    IF shapeError(t, d) # "" THEN Decoded("err", shapeError(t, d), <<>>)
    ELSE IF row.k = "norow" THEN Decoded("err", "sql: no rows in result set", Untouched(d.members))
    ELSE structLoop(scanned(t, row.v), d.members, 1, Untouched(d.members))

\* Rows.Struct
RowsStruct(t, row, d) ==
    IF shapeError(t, d) # "" THEN Decoded("err", shapeError(t, d), <<>>)
    ELSE IF row.k = "norow" THEN Decoded("err", "sql: Rows are closed", Untouched(d.members))
    ELSE structLoop(scanned(t, row.v), d.members, 1, Untouched(d.members))

\* parseSlice
parseSlice(t, scans) == [i \in 1..t.Len |-> parseValue(scans[i])]

\* parseMap: the value of the last field of each name
parseMap(t, scans) ==
    [n \in {t.Fields[i].Name : i \in DOMAIN t.Fields} |->
        LET last == CHOOSE i \in DOMAIN t.Fields :
                        /\ t.Fields[i].Name = n
                        /\ \A j \in DOMAIN t.Fields : t.Fields[j].Name = n => j <= i
        IN parseValue(scans[last])]

\* outcome of Slice and Map: data is the slice or the map
Mapped(out, err, data) == [out |-> out, err |-> err, data |-> data]

RowSlice(t, row) ==
    IF row.k = "norow" THEN Mapped("err", "sql: no rows in result set", <<>>)
    ELSE Mapped("ok", "", parseSlice(t, scanned(t, row.v)))

RowMap(t, row) ==
    IF row.k = "norow" THEN Mapped("err", "sql: no rows in result set", <<>>)
    ELSE Mapped("ok", "", parseMap(t, scanned(t, row.v)))

RowsSlice(t, row) ==
    IF row.k = "norow" THEN Mapped("err", "sql: Rows are closed", <<>>)
    ELSE Mapped("ok", "", parseSlice(t, scanned(t, row.v)))

RowsMap(t, row) ==
    IF row.k = "norow" THEN Mapped("err", "sql: Rows are closed", <<>>)
    ELSE Mapped("ok", "", parseMap(t, scanned(t, row.v)))

(***************************************************************************)
(* The decoders as calls on a table, a cursor row and the destinations     *)
(* the caller passes (Null for Slice and Map, which take none).            *)
(***************************************************************************)
Families == <<T_int11, T_varchar255, T_double, T_datetime>>

\* the catalogs of the tables decoded: one to MaxCols columns whose types
\* run through the four families from any starting point
DecodeCatalogs ==
    {[i \in 1..n |-> [Name |-> ColNames[i],
                      Type |-> Families[((i - 1 + o) % 4) + 1],
                      Key |-> IF i = 1 THEN "PRI" ELSE ""]] : n \in 1..MaxCols, o \in 0..3}

\* the driver values of a column of a scan-cell kind
ColumnValues(kind) ==
    CASE kind = "NullInt64" -> {I64(1), I64(2)}
      [] kind = "NullFloat64" -> {F64(1), F64(2)}
      [] kind = "NullString" -> {Str("x"), Str("1")}
      [] kind = "NullTime" -> {Time(t) : t \in Times}
      [] OTHER -> {Bytes("x")}

KindOf(t, i) == scanKind(t.Fields[i].Type.Value)

\* the rows a cursor over the table can stand on
RECURSIVE RowsUpTo(_, _)
RowsUpTo(t, n) ==
    IF n = 0 THEN {<<>>}
    ELSE {Append(r, v) : r \in RowsUpTo(t, n - 1), v \in {Nil} \cup ColumnValues(KindOf(t, n))}

RowsOf(t) == RowsUpTo(t, t.Len)

\* the destination kind of a field's own kind
Native(kind) == "*" \o CellHolds(kind)

\* the destinations passed to Scan at position i: none, a cell of the
\* field's kind, a nil pointer of that kind, a string cell
ScanDests(t, i) ==
    IF i > t.Len THEN {NilDest, Dest("*string", FALSE)}
    ELSE {NilDest, Dest(Native(KindOf(t, i)), FALSE), Dest(Native(KindOf(t, i)), TRUE),
          Dest("*string", FALSE)}

RECURSIVE ScanDestsUpTo(_, _)
ScanDestsUpTo(t, m) ==
    IF m = 0 THEN {<<>>}
    ELSE {Append(d, x) : d \in ScanDestsUpTo(t, m - 1), x \in ScanDests(t, m)}

ScanDestLists(t) ==
    UNION {ScanDestsUpTo(t, m) : m \in 0..(IF t.Len < MaxCols THEN t.Len + 1 ELSE MaxCols)}

\* the destinations passed to Struct: a pointer to a struct of the fields'
\* own kinds, one of string members, one with a member too few, a struct
\* passed by value, and the untyped nil
NativeStruct(t) == Struct(TRUE, [i \in 1..t.Len |-> Native(KindOf(t, i))])

StructDests(t) ==
    {NativeStruct(t),
     Struct(TRUE, [i \in 1..t.Len |-> "*string"]),
     Struct(TRUE, [i \in 1..(t.Len - 1) |-> "*string"]),
     Struct(FALSE, [i \in 1..t.Len |-> Native(KindOf(t, i))]),
     NilDest}

InitDecode ==
    /\ db = TRUE
    /\ db_name = "d1"
    /\ catalog \in DecodeCatalogs
    /\ table = GetTable(db_name, "t", catalog, "none").table
    /\ setter = Null
    /\ cursor \in {OnRow(r) : r \in RowsOf(table)} \cup {NoRow}
    /\ args = <<>>
    /\ values = <<>>
    /\ dest \in {[k |-> "list", v |-> d] : d \in ScanDestLists(table)} \cup StructDests(table) \cup {Null}
    /\ src = Null
    /\ call = InitCall
    /\ pc = Idle
    /\ ret = Null

DecodeCall(op, result) ==
    /\ call' = [op |-> op]
    /\ ret' = result
    /\ UNCHANGED <<db, db_name, catalog, table, setter, cursor, inputs, pc>>

IsStructDest == dest.k \in {"struct", "nil"}

RowScanCall == dest.k = "list" /\ DecodeCall("Row.Scan", RowScan(table, cursor, dest.v))
RowsScanCall == dest.k = "list" /\ DecodeCall("Rows.Scan", RowsScan(table, cursor, dest.v))
RowStructCall == IsStructDest /\ DecodeCall("Row.Struct", RowStruct(table, cursor, dest))
RowsStructCall == IsStructDest /\ DecodeCall("Rows.Struct", RowsStruct(table, cursor, dest))
RowSliceCall == dest.k = "null" /\ DecodeCall("Row.Slice", RowSlice(table, cursor))
RowsSliceCall == dest.k = "null" /\ DecodeCall("Rows.Slice", RowsSlice(table, cursor))
RowMapCall == dest.k = "null" /\ DecodeCall("Row.Map", RowMap(table, cursor))
RowsMapCall == dest.k = "null" /\ DecodeCall("Rows.Map", RowsMap(table, cursor))

NextDecode ==
    \/ RowScanCall
    \/ RowsScanCall
    \/ RowStructCall
    \/ RowsStructCall
    \/ RowSliceCall
    \/ RowsSliceCall
    \/ RowMapCall
    \/ RowsMapCall

SpecDecode == InitDecode /\ [][NextDecode]_vars

HasNull(row) == \E i \in DOMAIN row : row[i].k = "nil"

\* C5 as claimed: for any row, NULL columns included, Struct into a struct
\* of the fields' own kinds and Map both succeed, and every member equals
\* the value Map gives for the field's name.
C5_StructEqualsMap ==
    (call.op \in {"Row.Struct", "Rows.Struct"} /\ dest = NativeStruct(table) /\ cursor.k # "norow") =>
        LET m == RowMap(table, cursor) IN
        /\ ret.out = "ok"
        /\ m.out = "ok"
        /\ \A i \in 1..table.Len : ret.cells[i] = m.data[table.Fields[i].Name]

\* C5 as amended: for a row without NULL, Struct into a struct of the
\* fields' own kinds and Map both succeed and every member equals the value
\* Map gives for the field's name; for a row with a NULL column Map succeeds
\* and gives nil for that field, and Struct returns a conversion error.
C5_StructEqualsMapNoNull ==
    (call.op \in {"Row.Struct", "Rows.Struct"} /\ dest = NativeStruct(table) /\ cursor.k # "norow") =>
        LET m == IF call.op = "Row.Struct" THEN RowMap(table, cursor) ELSE RowsMap(table, cursor) IN
        /\ m.out = "ok"
        /\ \A i \in 1..table.Len : cursor.v[i].k = "nil" <=> m.data[table.Fields[i].Name].k = "nil"
        /\ ~HasNull(cursor.v) =>
              /\ ret.out = "ok"
              /\ \A i \in 1..table.Len : ret.cells[i] = m.data[table.Fields[i].Name]
              /\ \A i \in 1..table.Len : ret.cells[i] = cursor.v[i]
        /\ HasNull(cursor.v) => ret.out = "err"

C5_Witness ==
    /\ call.op = "Row.Struct"
    /\ dest = NativeStruct(table)
    /\ table.Len = MaxCols
    /\ cursor.k # "norow"
    /\ ~HasNull(cursor.v)
    /\ ret.out = "ok"

\* the first destination of a Scan whose conversion does not succeed, one
\* past the last destination when there is none
FirstFailure(dests, row) ==
    LET bad == {i \in DOMAIN dests : dests[i].k # "nil" /\ convertValue(dests[i], row[i]).out # "ok"}
    IN IF bad = {} THEN Len(dests) + 1 ELSE CHOOSE i \in bad : \A j \in bad : i <= j

\* C9: in Scan on a Row or a Rows with at most Len destinations, a non-nil
\* destination j receives the converted value of column j whatever other
\* destinations are nil: nothing is delivered to a nil destination, none
\* shifts the later ones, and Scan delivers up to the first conversion that
\* fails and returns its error.
C9_ScanPositional ==
    (call.op \in {"Row.Scan", "Rows.Scan"} /\ cursor.k # "norow" /\ Len(dest.v) <= table.Len) =>
        LET stop == FirstFailure(dest.v, cursor.v) IN
        /\ ret.out = (IF stop > Len(dest.v) THEN "ok" ELSE "err")
        /\ \A j \in DOMAIN dest.v :
              ret.cells[j] = IF dest.v[j].k # "nil" /\ j < stop
                             THEN convertValue(dest.v[j], cursor.v[j]).cell
                             ELSE Nil

\* Scan(nil, d2, ...) with every later destination delivered
C9_Witness ==
    /\ call.op = "Rows.Scan"
    /\ cursor.k # "norow"
    /\ table.Len = MaxCols
    /\ Len(dest.v) = table.Len
    /\ dest.v[1].k = "nil"
    /\ \A j \in 2..Len(dest.v) : dest.v[j].k # "nil" /\ ret.cells[j].k # "nil"
    /\ ret.out = "ok"

====
